---- MODULE Spec2Model ----
(***************************************************************************)
(* Model of src/lazyComponents.tsx: fifteen lazily imported components,   *)
(* the withSuspense higher-order component, its ErrorBoundary class and   *)
(* preloadComponent.  The React primitives the file composes (lazy,       *)
(* Suspense, error-boundary lifecycle) are modelled where the file uses   *)
(* them.  Every action is one event together with the synchronous         *)
(* re-render React performs for it, so each state is a committed screen.  *)
(***************************************************************************)
EXTENDS Integers, Sequences, FiniteSets, TLC

\* ---------------------------------------------------------------- bounds
MaxWrappers == 2    \* WrappedComponent instances that may be created
MaxPreloads == 1    \* preloadComponent invocations

\* ------------------------------------------------------ the lazy bindings
\* One record per `lazy(() => import(path))` binding.  `id` is the identity
\* of the object lazy() returned (allocation order in the module); `dir`
\* and `module` are the two path segments after ./components/.
LazyProfileDashboard      == [id |-> 1,  dir |-> "dashboard",   module |-> "ProfileDashboard"]
LazyPersonalDetails       == [id |-> 2,  dir |-> "dashboard",   module |-> "PersonalDetails"]
LazyTransaction           == [id |-> 3,  dir |-> "dashboard",   module |-> "Transaction"]
LazyFilters               == [id |-> 4,  dir |-> "marketplace", module |-> "Filters"]
LazyCoinCard              == [id |-> 5,  dir |-> "marketplace", module |-> "CoinCard"]
LazyAssetTable            == [id |-> 6,  dir |-> "marketplace", module |-> "AssetTable"]
LazySummaryHeader         == [id |-> 7,  dir |-> "marketplace", module |-> "SummaryHeader"]
LazyTradeInterface        == [id |-> 8,  dir |-> "marketplace", module |-> "TradeInterface"]
LazySmallLoanCard         == [id |-> 9,  dir |-> "card",        module |-> "SmallLoanCard"]
LazyBigLoanCard           == [id |-> 10, dir |-> "card",        module |-> "BigLoanCard"]
LazyLoanRequestForm       == [id |-> 11, dir |-> "card",        module |-> "LoanRequestForm"]
LazyLoanEligibilityMeter  == [id |-> 12, dir |-> "card",        module |-> "LoanEligibilityMeter"]
LazyWalletConnectionModal == [id |-> 13, dir |-> "wallet",      module |-> "WalletConnectionModal"]
LazyFaucetModule          == [id |-> 14, dir |-> "landing",     module |-> "FaucetModule"]
LazyBuiltOnAptos          == [id |-> 15, dir |-> "landing",     module |-> "BuiltOnAptos"]

\* The module's named Lazy* exports: export name -> lazy object.
LazyExports ==
  [ LazyProfileDashboard      |-> LazyProfileDashboard,
    LazyPersonalDetails       |-> LazyPersonalDetails,
    LazyTransaction           |-> LazyTransaction,
    LazyFilters               |-> LazyFilters,
    LazyCoinCard              |-> LazyCoinCard,
    LazyAssetTable            |-> LazyAssetTable,
    LazySummaryHeader         |-> LazySummaryHeader,
    LazyTradeInterface        |-> LazyTradeInterface,
    LazySmallLoanCard         |-> LazySmallLoanCard,
    LazyBigLoanCard           |-> LazyBigLoanCard,
    LazyLoanRequestForm       |-> LazyLoanRequestForm,
    LazyLoanEligibilityMeter  |-> LazyLoanEligibilityMeter,
    LazyWalletConnectionModal |-> LazyWalletConnectionModal,
    LazyFaucetModule          |-> LazyFaucetModule,
    LazyBuiltOnAptos          |-> LazyBuiltOnAptos ]

\* LazyComponents with one key bound to its neighbour's lazy object.
LazyComponentsMisbound ==
  [ ProfileDashboard      |-> LazyProfileDashboard,
    PersonalDetails       |-> LazyPersonalDetails,
    Transaction           |-> LazyTransaction,
    Filters               |-> LazyFilters,
    CoinCard              |-> LazyCoinCard,
    AssetTable            |-> LazyAssetTable,
    SummaryHeader         |-> LazySummaryHeader,
    TradeInterface        |-> LazyTradeInterface,
    SmallLoanCard         |-> LazySmallLoanCard,
    BigLoanCard           |-> LazySmallLoanCard,
    LoanRequestForm       |-> LazyLoanRequestForm,
    LoanEligibilityMeter  |-> LazyLoanEligibilityMeter,
    WalletConnectionModal |-> LazyWalletConnectionModal,
    FaucetModule          |-> LazyFaucetModule,
    BuiltOnAptos          |-> LazyBuiltOnAptos ]

\* The convenience object: key -> lazy object.
LazyComponents ==
  [ ProfileDashboard      |-> LazyProfileDashboard,
    PersonalDetails       |-> LazyPersonalDetails,
    Transaction           |-> LazyTransaction,
    Filters               |-> LazyFilters,
    CoinCard              |-> LazyCoinCard,
    AssetTable            |-> LazyAssetTable,
    SummaryHeader         |-> LazySummaryHeader,
    TradeInterface        |-> LazyTradeInterface,
    SmallLoanCard         |-> LazySmallLoanCard,
    BigLoanCard           |-> LazyBigLoanCard,
    LoanRequestForm       |-> LazyLoanRequestForm,
    LoanEligibilityMeter  |-> LazyLoanEligibilityMeter,
    WalletConnectionModal |-> LazyWalletConnectionModal,
    FaucetModule          |-> LazyFaucetModule,
    BuiltOnAptos          |-> LazyBuiltOnAptos ]

Keys == DOMAIN LazyComponents

\* The lazy objects the module creates, and their identities.
LazyObjects == {LazyExports[n] : n \in DOMAIN LazyExports}
LazyIds     == {L.id : L \in LazyObjects}

\* ------------------------------------------------------------ JS values
\* ReactNode values a caller may pass as options.fallback, written as their
\* source text; "undefined" is an omitted property.
FallbackValues == {"undefined", "null", "''", "0", "<Skeleton/>"}

\* JavaScript ToBoolean on the values above (what `||` tests).
Truthy(v) == v \notin {"undefined", "null", "''", "0"}

\* The options argument of withSuspense; "undefined" is an omitted property
\* (an omitted argument is the record with all three omitted).
Options ==
  [ fallback      : FallbackValues,
    errorBoundary : {"undefined", "false", "true"},
    loadingSize   : {"undefined", "sm", "md", "lg"} ]

\* sizeClasses of DefaultLoadingFallback, each class string as the list of
\* its space-separated tokens (what split(' ') yields).
sizeClasses ==
  [ sm |-> <<"h-5",  "w-5",  "min-h-[100px]">>,
    md |-> <<"h-8",  "w-8",  "min-h-[200px]">>,
    lg |-> <<"h-12", "w-12", "min-h-[300px]">> ]

\* DefaultLoadingFallback({ size = 'md' }): the spinner element.
DefaultLoadingFallback(size) ==
  LET s == IF size = "undefined" THEN "md" ELSE size
      c == sizeClasses[s]
  IN  [ type      |-> "DefaultLoadingFallback",
        size      |-> s,
        className |-> <<"flex", "items-center", "justify-center">> \o c,
        spinner   |-> <<"animate-spin", "rounded-full", c[1], c[2],
                        "border-b-2", "border-white">> ]

\* A caller-supplied ReactNode used as an element.
Node(v) == [type |-> "node", value |-> v]

\* Destructure with the boundary on by default (errorBoundary = true).
DestructureBoundaryOn(options) ==
  [ fallback      |-> options.fallback,
    errorBoundary |-> IF options.errorBoundary = "undefined" THEN TRUE
                      ELSE options.errorBoundary = "true",
    loadingSize   |-> IF options.loadingSize = "undefined" THEN "md"
                      ELSE options.loadingSize ]

\* The destructuring of options at the top of withSuspense: the closure
\* WrappedComponent captures.
Destructure(options) ==
  [ fallback      |-> options.fallback,
    errorBoundary |-> IF options.errorBoundary = "undefined" THEN FALSE
                      ELSE options.errorBoundary = "true",
    loadingSize   |-> IF options.loadingSize = "undefined" THEN "md"
                      ELSE options.loadingSize ]

\* const loadingFallback = fallback || <DefaultLoadingFallback size=.../>
LoadingFallback(cl) ==
  IF Truthy(cl.fallback) THEN Node(cl.fallback)
  ELSE DefaultLoadingFallback(cl.loadingSize)

\* <Suspense fallback={loadingFallback}><Component {...props}/></Suspense>
SuspenseWrapper(Component, cl) ==
  [ type     |-> "Suspense",
    fallback |-> LoadingFallback(cl),
    child    |-> [type |-> "Lazy", id |-> Component] ]

\* The element WrappedComponent returns.
WrappedComponent(Component, cl) ==
  IF cl.errorBoundary
  THEN [type |-> "ErrorBoundary", children |-> SuspenseWrapper(Component, cl)]
  ELSE SuspenseWrapper(Component, cl)

\* What ErrorBoundary.render returns when hasError is set.
ErrorPanel ==
  [ type   |-> "ErrorPanel",
    text   |-> "Something went wrong loading this component",
    button |-> "Retry" ]

\* ------------------------------------------------------------- the state
Wrappers == 1..MaxWrappers
Preloads == 1..MaxPreloads

VARIABLES
  status,      \* lazy id -> load state of the binding's deferred import
  thunkCalls,  \* lazy id -> how many times the binding's import thunk ran
  fetched,     \* module paths <<dir, module>> the bindings' thunks imported
  phase,       \* wrapper -> "unused" | "wrapped" | "mounted" | "crashed"
  comp,        \* wrapper -> lazy id it wraps (0 while unused)
  options,     \* wrapper -> the options argument withSuspense was given
  hasError,    \* wrapper -> this.state.hasError of its ErrorBoundary
  display,     \* wrapper -> what the wrapper shows on the committed screen
  preload,     \* preload call -> its import promise
  unhandled,   \* preload calls whose rejection no handler took
  ev           \* what the last event did (op, target, console.error calls,
               \* wrappers whose Suspense subtree rendered, thunks invoked,
               \* wrappers whose subtree threw, boundaries whose
               \* getDerivedStateFromError ran)

vars == <<status, thunkCalls, fetched, phase, comp, options, hasError,
          display, preload, unhandled, ev>>

NoElement == [type |-> "none"]
Blank     == [kind |-> "none", node |-> NoElement]

\* The module path the thunk of a lazy object imports.
Path(id) ==
  LET L == CHOOSE l \in LazyObjects : l.id = id
  IN  <<L.dir, L.module>>

\* ------------------------------------------------------------ the render
\* RenderLazy running the thunk again on every render of a pending import.
RenderLazyRecall(st, throws) ==
  CASE st \in {"uninitialized", "pending"} ->
         [out |-> "suspend", st |-> "pending", called |-> TRUE]
    [] st = "resolved" -> [out |-> IF throws THEN "throw" ELSE "ok",
                           st |-> st, called |-> FALSE]
    [] st = "rejected" -> [out |-> "throw", st |-> st, called |-> FALSE]

\* Rendering a lazy element: the first render runs the thunk and suspends;
\* a pending import suspends; a resolved one renders the loaded component
\* (which throws or not); a rejected one rethrows the stored error.
RenderLazy(st, throws) ==
  CASE st = "uninitialized" -> [out |-> "suspend", st |-> "pending", called |-> TRUE]
    [] st = "pending"       -> [out |-> "suspend", st |-> st, called |-> FALSE]
    [] st = "resolved"      -> [out |-> IF throws THEN "throw" ELSE "ok",
                                st |-> st, called |-> FALSE]
    [] st = "rejected"      -> [out |-> "throw", st |-> st, called |-> FALSE]

\* RenderSuspense without the fallback: a suspended child leaves nothing
\* on screen.
RenderSuspenseNoFallback(el, st, throws) ==
  LET r == RenderLazy(st, throws)
  IN  [ out     |-> IF r.out = "throw" THEN "throw" ELSE "ok",
        display |-> CASE r.out = "suspend" -> Blank
                      [] r.out = "ok"      -> [kind |-> "component", node |-> el.child]
                      [] r.out = "throw"   -> Blank,
        st      |-> r.st,
        called  |-> r.called ]

\* Rendering the Suspense element: its fallback replaces a suspended child;
\* a thrown error passes through it.
RenderSuspense(el, st, throws) ==
  LET r == RenderLazy(st, throws)
  IN  [ out     |-> IF r.out = "throw" THEN "throw" ELSE "ok",
        display |-> CASE r.out = "suspend" -> [kind |-> "placeholder", node |-> el.fallback]
                      [] r.out = "ok"      -> [kind |-> "component", node |-> el.child]
                      [] r.out = "throw"   -> Blank,
        st      |-> r.st,
        called  |-> r.called ]

\* getDerivedStateFromError leaving the flag unset.
getDerivedStateFromErrorUnset == [hasError |-> FALSE]

\* static getDerivedStateFromError()
getDerivedStateFromError == [hasError |-> TRUE]

\* ErrorBoundary.render() without the hasError branch.
BoundaryRenderChildren(he, childDisplay) == childDisplay

\* ErrorBoundary.render(), given this.state.hasError and the outcome of
\* rendering this.props.children.
BoundaryRender(he, childDisplay) ==
  IF he THEN [kind |-> "errorPanel", node |-> ErrorPanel]
  ELSE childDisplay

\* componentDidCatch: one console.error call per caught error.
componentDidCatch == 1

\* Rendering an ErrorBoundary element whose state is `he`.  With hasError
\* set the children are not rendered at all; an error thrown below is taken
\* by getDerivedStateFromError, logged by componentDidCatch, and the
\* boundary renders again.
RenderBoundary(el, he, st, throws) ==
  IF he
  THEN [ hasError |-> he, display |-> BoundaryRender(he, Blank), st |-> st,
         called |-> FALSE, logged |-> 0, caught |-> FALSE, rendered |-> FALSE,
         escaped |-> FALSE ]
  ELSE LET r == RenderSuspense(el.children, st, throws)
       IN  IF r.out = "throw"
           THEN [ hasError |-> getDerivedStateFromError.hasError,
                  display  |-> BoundaryRender(getDerivedStateFromError.hasError, Blank),
                  st |-> r.st, called |-> r.called, logged |-> componentDidCatch,
                  caught |-> TRUE, rendered |-> TRUE, escaped |-> FALSE ]
           ELSE [ hasError |-> he, display |-> BoundaryRender(he, r.display),
                  st |-> r.st, called |-> r.called, logged |-> 0,
                  caught |-> FALSE, rendered |-> TRUE, escaped |-> FALSE ]

\* Rendering what WrappedComponent returned.  An error no boundary of the
\* wrapper takes leaves the wrapper: React unmounts the tree it reached.
RenderRoot(el, he, st, throws) ==
  IF el.type = "ErrorBoundary"
  THEN RenderBoundary(el, he, st, throws)
  ELSE LET r == RenderSuspense(el, st, throws)
       IN  [ hasError |-> he,
             display  |-> r.display,
             st |-> r.st, called |-> r.called, logged |-> 0, caught |-> FALSE,
             rendered |-> TRUE, escaped |-> (r.out = "throw") ]

\* --------------------------------------------------------------- actions
NoOptions == [fallback |-> "undefined", errorBoundary |-> "undefined",
              loadingSize |-> "undefined"]
NoPromise == [st |-> "idle", calls |-> 0, catch |-> FALSE]

Init ==
  /\ status     = [c \in LazyIds |-> "uninitialized"]
  /\ thunkCalls = [c \in LazyIds |-> 0]
  /\ fetched    = {}
  /\ phase      = [w \in Wrappers |-> "unused"]
  /\ comp       = [w \in Wrappers |-> 0]
  /\ options    = [w \in Wrappers |-> NoOptions]
  /\ hasError   = [w \in Wrappers |-> FALSE]
  /\ display    = [w \in Wrappers |-> Blank]
  /\ preload    = [p \in Preloads |-> NoPromise]
  /\ unhandled  = {}
  /\ ev         = [op |-> "load", id |-> 0, logged |-> 0, rendered |-> {},
                   called |-> {}, threw |-> {}, caught |-> {}]

\* What withSuspense destructured for wrapper w, and the element the
\* wrapper returns when rendered.
Closure(w) == Destructure(options[w])
Tree(w)    == WrappedComponent(comp[w], Closure(w))

\* React renders the wrappers in S (the loaded component throws in those of
\* T) against load states `stat` and boundary states `he`, and commits.
Commit(op, id, S, T, stat, he) ==
  LET R       == [w \in S |-> RenderRoot(Tree(w), he[w], stat[comp[w]], w \in T)]
      started == {comp[w] : w \in {x \in S : R[x].called}}
      caught  == {w \in S : R[w].caught}
  IN  /\ status'     = IF started = {} THEN stat
                       ELSE [c \in LazyIds |-> IF c \in started THEN "pending" ELSE stat[c]]
      /\ thunkCalls' = IF started = {} THEN thunkCalls
                       ELSE [c \in LazyIds |-> IF c \in started THEN thunkCalls[c] + 1
                                                ELSE thunkCalls[c]]
      /\ fetched'    = fetched \cup {Path(c) : c \in started}
      /\ phase'      = [w \in Wrappers |-> IF w \in S
                                           THEN IF R[w].escaped THEN "crashed" ELSE "mounted"
                                           ELSE phase[w]]
      /\ hasError'   = [w \in Wrappers |-> IF w \in S THEN R[w].hasError ELSE he[w]]
      /\ display'    = [w \in Wrappers |-> IF w \in S
                                           THEN IF R[w].escaped THEN Blank ELSE R[w].display
                                           ELSE display[w]]
      /\ ev'         = [ op       |-> op,
                         id       |-> id,
                         logged   |-> Cardinality(caught) * componentDidCatch,
                         rendered |-> {w \in S : R[w].rendered},
                         called   |-> started,
                         threw    |-> {w \in S : R[w].caught \/ R[w].escaped},
                         caught   |-> caught ]

\* withSuspense(LazyComponents[K], options): returns WrappedComponent; the
\* next free wrapper slot stands for the first use of it.
withSuspense(w, K, opts) ==
  /\ phase[w] = "unused"
  /\ \A v \in Wrappers : v < w => phase[v] # "unused"
  /\ phase'   = [phase EXCEPT ![w] = "wrapped"]
  /\ comp'    = [comp EXCEPT ![w] = LazyComponents[K].id]
  /\ options' = [options EXCEPT ![w] = opts]
  /\ ev'      = [op |-> "withSuspense", id |-> w, logged |-> 0, rendered |-> {},
                 called |-> {}, threw |-> {}, caught |-> {}]
  /\ UNCHANGED <<status, thunkCalls, fetched, hasError, display, preload, unhandled>>

\* The first render of a wrapper (its ErrorBoundary is constructed with
\* hasError false).
Mount(w, throws) ==
  /\ phase[w] = "wrapped"
  /\ Commit("Mount", w, {w}, IF throws THEN {w} ELSE {}, status,
            [hasError EXCEPT ![w] = FALSE])
  /\ UNCHANGED <<comp, options, preload, unhandled>>

\* A later render of a mounted wrapper (its parent rendered again).
Update(w, throws) ==
  /\ phase[w] = "mounted"
  /\ Commit("Update", w, {w}, IF throws THEN {w} ELSE {}, status, hasError)
  /\ UNCHANGED <<comp, options, preload, unhandled>>

\* The wrappers React renders again when the import of c settles: those
\* suspended on it.
Suspended(c) ==
  {w \in Wrappers : phase[w] = "mounted" /\ comp[w] = c /\ display[w].kind = "placeholder"}

\* The import promise of lazy binding c resolves; the loaded component
\* throws in the wrappers of T when React renders them.
ImportResolve(c) ==
  /\ status[c] = "pending"
  /\ \E T \in SUBSET Suspended(c) :
       Commit("ImportResolve", c, Suspended(c), T, [status EXCEPT ![c] = "resolved"],
              hasError)
  /\ UNCHANGED <<comp, options, preload, unhandled>>

\* The import promise of lazy binding c rejects.
ImportReject(c) ==
  /\ status[c] = "pending"
  /\ Commit("ImportReject", c, Suspended(c), {}, [status EXCEPT ![c] = "rejected"], hasError)
  /\ UNCHANGED <<comp, options, preload, unhandled>>

\* Retry whose onClick leaves this.state.hasError as it is.
RetryNoReset(w, throws) ==
  /\ phase[w] = "mounted"
  /\ display[w].kind = "errorPanel"
  /\ Commit("Retry", w, {w}, IF throws THEN {w} ELSE {}, status, hasError)
  /\ UNCHANGED <<comp, options, preload, unhandled>>

\* Retry that also resets the lazy binding so that its thunk runs again.
RetryReimport(w, throws) ==
  /\ phase[w] = "mounted"
  /\ display[w].kind = "errorPanel"
  /\ Commit("Retry", w, {w}, IF throws THEN {w} ELSE {},
            [status EXCEPT ![comp[w]] = "uninitialized"],
            [hasError EXCEPT ![w] = FALSE])
  /\ UNCHANGED <<comp, options, preload, unhandled>>

\* onClick of the Retry button: this.setState({ hasError: false }), and the
\* render React runs for it.
Retry(w, throws) ==
  /\ phase[w] = "mounted"
  /\ display[w].kind = "errorPanel"
  /\ Commit("Retry", w, {w}, IF throws THEN {w} ELSE {}, status,
            [hasError EXCEPT ![w] = FALSE])
  /\ UNCHANGED <<comp, options, preload, unhandled>>

\* preloadComponent without the .catch: importFn() alone.
preloadComponentNoCatch(pr) ==
  [st |-> "pending", calls |-> pr.calls + 1, catch |-> FALSE]

\* preloadComponent body: importFn().catch(console.error)
preloadComponent(pr) ==
  [st |-> "pending", calls |-> pr.calls + 1, catch |-> TRUE]

\* A call preloadComponent(importFn); importFn returns a promise.
PreloadComponent(p) ==
  /\ preload[p].st = "idle"
  /\ \A q \in Preloads : q < p => preload[q].st # "idle"
  /\ preload' = [preload EXCEPT ![p] = preloadComponent(preload[p])]
  /\ ev'      = [op |-> "preloadComponent", id |-> p, logged |-> 0, rendered |-> {},
                 called |-> {}, threw |-> {}, caught |-> {}]
  /\ UNCHANGED <<status, thunkCalls, fetched, phase, comp, options, hasError, display,
                 unhandled>>

\* The promise importFn returned settles; a rejection goes to the handler
\* .catch attached, or is unhandled when there is none.
PreloadSettle(p, ok) ==
  /\ preload[p].st = "pending"
  /\ preload'   = [preload EXCEPT ![p].st = IF ok THEN "resolved" ELSE "rejected"]
  /\ unhandled' = IF ~ok /\ ~preload[p].catch THEN unhandled \cup {p} ELSE unhandled
  /\ ev'        = [op |-> "PreloadSettle", id |-> p,
                   logged |-> IF ~ok /\ preload[p].catch THEN 1 ELSE 0,
                   rendered |-> {}, called |-> {}, threw |-> {}, caught |-> {}]
  /\ UNCHANGED <<status, thunkCalls, fetched, phase, comp, options, hasError, display>>

\* Inputs of the many-wrapper specification: two bindings and two option
\* objects (omitted; custom fallback with the boundary on).
SomeKeys == {"ProfileDashboard", "PersonalDetails"}
SomeOptions ==
  { [fallback |-> "undefined",   errorBoundary |-> "undefined", loadingSize |-> "undefined"],
    [fallback |-> "<Skeleton/>", errorBoundary |-> "true",      loadingSize |-> "undefined"] }

\* Several wrappers over few inputs.
Next ==
  \/ \E w \in Wrappers, K \in SomeKeys, o \in SomeOptions : withSuspense(w, K, o)
  \/ \E w \in Wrappers, t \in BOOLEAN : Mount(w, t)
  \/ \E w \in Wrappers, t \in BOOLEAN : Update(w, t)
  \/ \E c \in LazyIds : ImportResolve(c)
  \/ \E c \in LazyIds : ImportReject(c)
  \/ \E w \in Wrappers, t \in BOOLEAN : Retry(w, t)

Spec == Init /\ [][Next]_vars

\* One wrapper, every key of LazyComponents and every options object.
NextWide ==
  \/ \E K \in Keys, o \in Options : withSuspense(1, K, o)
  \/ \E t \in BOOLEAN : Mount(1, t)
  \/ \E t \in BOOLEAN : Update(1, t)
  \/ \E c \in LazyIds : ImportResolve(c)
  \/ \E c \in LazyIds : ImportReject(c)
  \/ \E t \in BOOLEAN : Retry(1, t)

SpecWide == Init /\ [][NextWide]_vars

\* One wrapper with every options object, next to preloadComponent calls.
NextPreload ==
  \/ \E K \in SomeKeys, o \in Options : withSuspense(1, K, o)
  \/ \E t \in BOOLEAN : Mount(1, t)
  \/ \E t \in BOOLEAN : Update(1, t)
  \/ \E c \in LazyIds : ImportResolve(c)
  \/ \E c \in LazyIds : ImportReject(c)
  \/ \E t \in BOOLEAN : Retry(1, t)
  \/ \E p \in Preloads : PreloadComponent(p)
  \/ \E p \in Preloads, ok \in BOOLEAN : PreloadSettle(p, ok)

SpecPreload == Init /\ [][NextPreload]_vars

\* ---------------------------------------------------------------- claims
Created(w)     == phase[w] # "unused"
Mounted(w)     == phase[w] = "mounted"
HasBoundary(w) == Created(w) /\ Closure(w).errorBoundary
ShowsPanel(w)  == display[w] = [kind |-> "errorPanel", node |-> ErrorPanel]

\* C1: while the wrapped component's import is pending a mounted wrapper
\* shows its Suspense fallback and not the component; once the import has
\* resolved the wrapper never shows the placeholder, and shows the
\* component unless an error was thrown (the boundary holds one); a
\* resolved import stays resolved.
C1_PlaceholderThenComponent ==
  /\ [](\A w \in Wrappers : Mounted(w) =>
          /\ status[comp[w]] = "pending" =>
               display[w] = [kind |-> "placeholder", node |-> LoadingFallback(Closure(w))]
          /\ status[comp[w]] = "resolved" =>
               /\ display[w].kind # "placeholder"
               /\ ~hasError[w] =>
                    display[w] = [kind |-> "component",
                                  node |-> [type |-> "Lazy", id |-> comp[w]]])
  /\ [][\A c \in LazyIds : status[c] = "resolved" => status'[c] = "resolved"]_vars

\* C1 witness: a wrapper that showed the placeholder now shows the loaded
\* component, the import having just resolved.
C1_Witness ==
  /\ ev.op = "ImportResolve"
  /\ Mounted(1) /\ comp[1] = ev.id /\ 1 \in ev.rendered
  /\ status[comp[1]] = "resolved"
  /\ display[1].kind = "component"

\* C2 as stated: whenever the import rejects or the render throws under a
\* wrapper, the wrapper shows the error panel and the error does not leave
\* the wrapper.
C2_ErrorAlwaysCaught ==
  \A w \in Wrappers :
    /\ phase[w] # "crashed"
    /\ w \in ev.threw => ShowsPanel(w)
    /\ (Mounted(w) /\ status[comp[w]] = "rejected") => ShowsPanel(w)

\* C2 amended: a wrapper made with options.errorBoundary true shows the
\* error panel whenever the import rejects or the render throws, and the
\* error never leaves it.
C2_ErrorCaughtWithBoundary ==
  \A w \in Wrappers : HasBoundary(w) =>
    /\ phase[w] # "crashed"
    /\ w \in ev.threw => (ShowsPanel(w) /\ w \in ev.caught)
    /\ (Mounted(w) /\ status[comp[w]] = "rejected") => ShowsPanel(w)

\* C2 witness: the import of a boundary wrapper's component has just
\* rejected and the wrapper shows the panel.
C2_Witness ==
  \E w \in Wrappers :
    /\ HasBoundary(w) /\ ev.op = "ImportReject" /\ ev.id = comp[w]
    /\ w \in ev.threw /\ ShowsPanel(w) /\ Mounted(w)

\* C3: with options.errorBoundary omitted or false the wrapper returns the
\* Suspense element alone and an error below leaves the wrapper uncaught;
\* with it true the wrapper returns an ErrorBoundary whose only child is
\* that Suspense element, and an error puts the panel in place of both the
\* component and the placeholder.
C3_BoundaryOptional ==
  \A w \in Wrappers : Created(w) =>
    LET el == Tree(w)
        sw == SuspenseWrapper(comp[w], Closure(w))
    IN  /\ options[w].errorBoundary \in {"undefined", "false"} =>
             /\ el = sw /\ el.type = "Suspense"
             /\ ~hasError[w]
             /\ w \in ev.threw => (w \notin ev.caught /\ phase[w] = "crashed")
        /\ options[w].errorBoundary = "true" =>
             /\ el.type = "ErrorBoundary"
             /\ el.children = sw /\ el.children.type = "Suspense"
             /\ w \in ev.threw => (w \in ev.caught /\ Mounted(w) /\ ShowsPanel(w))
             /\ hasError[w] => display[w].kind \notin {"component", "placeholder"}

\* C3 witness: a wrapper made with errorBoundary omitted whose component
\* threw; the error left the wrapper.
C3_Witness ==
  /\ options[1].errorBoundary = "undefined"
  /\ 1 \in ev.threw
  /\ phase[1] = "crashed"

\* C4: a mounted ErrorBoundary shows the error panel exactly when hasError
\* is true and what its children render exactly when it is false; the
\* children are not rendered while hasError is true; an error a child
\* throws is caught (hasError set, one console.error) and does not take
\* down the tree above.
C4_BoundaryRender ==
  \A w \in Wrappers : HasBoundary(w) =>
    /\ phase[w] # "crashed"
    /\ Mounted(w) =>
         /\ hasError[w] <=> ShowsPanel(w)
         /\ ~hasError[w] <=> display[w].kind \in {"placeholder", "component"}
         /\ ~hasError[w] =>
              display[w] = RenderSuspense(Tree(w).children, status[comp[w]], FALSE).display
         /\ (hasError[w] /\ w \in ev.rendered) => w \in ev.caught
         /\ w \in ev.threw =>
              (hasError[w] /\ w \in ev.caught /\ ev.logged >= componentDidCatch)

\* C4 witness: a boundary has just caught a render error of its loaded
\* child and shows the panel.
C4_Witness ==
  \E w \in Wrappers :
    /\ HasBoundary(w) /\ Mounted(w) /\ status[comp[w]] = "resolved"
    /\ w \in ev.caught /\ hasError[w] /\ ShowsPanel(w) /\ ev.logged = 1

\* C5: hasError is false until the first catch; it goes from false to true
\* only in an event whose getDerivedStateFromError ran for that boundary,
\* and from true to false only in a click on that boundary's Retry; a
\* Retry renders the children again, and leaves the boundary showing the
\* panel again if they throw and showing the children if they do not; the
\* error never leaves the boundary, and while the panel shows Retry can be
\* clicked.
C5_CatchAndRetry ==
  /\ [](\A w \in Wrappers :
          /\ phase[w] \in {"unused", "wrapped"} => ~hasError[w]
          /\ (HasBoundary(w) /\ Mounted(w) /\ hasError[w]) =>
               (ENABLED Retry(w, TRUE) /\ ENABLED Retry(w, FALSE)))
  /\ [][\A w \in Wrappers :
          /\ (~hasError[w] /\ hasError'[w]) => w \in ev'.caught
          /\ (hasError[w] /\ ~hasError'[w]) => (ev'.op = "Retry" /\ ev'.id = w)
          /\ (hasError[w] /\ ev'.op = "Retry" /\ ev'.id = w) =>
               /\ w \in ev'.rendered
               /\ phase'[w] = "mounted"
               /\ w \in ev'.threw => (w \in ev'.caught /\ hasError'[w])
               /\ w \notin ev'.threw => ~hasError'[w]]_vars

\* C5 witness: a Retry whose children threw again; the boundary is back in
\* the error state.
C5_Witness ==
  \E w \in Wrappers :
    /\ ev.op = "Retry" /\ ev.id = w /\ w \in ev.rendered /\ w \in ev.caught
    /\ status[comp[w]] = "resolved"
    /\ hasError[w] /\ ShowsPanel(w)

\* C6: no import has started when the module has loaded or when
\* withSuspense returns; a binding's thunk runs only in the first render of
\* a wrapper of that binding, once, and starts no other binding's import.
C6_ImportDeferred ==
  /\ ev.op \in {"load", "withSuspense"} => ev.called = {}
  /\ ev.called # {} => (ev.op = "Mount" /\ ev.called = {comp[ev.id]})
  /\ \A c \in LazyIds :
       /\ thunkCalls[c] <= 1
       /\ thunkCalls[c] = 0 <=> status[c] = "uninitialized"
       /\ thunkCalls[c] = 1 <=>
            \E w \in Wrappers : phase[w] \in {"mounted", "crashed"} /\ comp[w] = c

\* C6 witness: two wrappers of different bindings exist, the first render
\* of one has just started its import and the other binding's is untouched.
C6_Witness ==
  \E w, v \in Wrappers :
    /\ ev.op = "Mount" /\ ev.id = w /\ ev.called = {comp[w]}
    /\ phase[v] = "wrapped" /\ comp[v] # comp[w]
    /\ status[comp[w]] = "pending" /\ status[comp[v]] = "uninitialized"

\* C7: LazyComponents has exactly 15 keys; key K is bound to the object
\* exported as LazyK, whose thunk imports the module named K; distinct
\* keys have distinct objects and paths; every Lazy* export is under
\* exactly one key; and rendering the binding of key K fetches module K.
C7_LazyComponentsMapping ==
  /\ Cardinality(Keys) = 15
  /\ Cardinality(DOMAIN LazyExports) = 15
  /\ \A K \in Keys :
       /\ ("Lazy" \o K) \in DOMAIN LazyExports
       /\ LazyComponents[K] = LazyExports["Lazy" \o K]
       /\ LazyComponents[K].module = K
       /\ status[LazyComponents[K].id] # "uninitialized" =>
            <<LazyComponents[K].dir, K>> \in fetched
  /\ \A K1, K2 \in Keys : K1 # K2 =>
       /\ LazyComponents[K1].id # LazyComponents[K2].id
       /\ <<LazyComponents[K1].dir, LazyComponents[K1].module>> #
            <<LazyComponents[K2].dir, LazyComponents[K2].module>>
  /\ \A n \in DOMAIN LazyExports :
       Cardinality({K \in Keys : LazyComponents[K] = LazyExports[n]}) = 1
  /\ \A q \in fetched : \E K \in Keys :
       q = <<LazyComponents[K].dir, K>> /\ status[LazyComponents[K].id] # "uninitialized"

\* C7 witness: the binding under key BuiltOnAptos was rendered and its
\* thunk imported landing/BuiltOnAptos.
C7_Witness ==
  /\ comp[1] = LazyComponents["BuiltOnAptos"].id
  /\ Mounted(1)
  /\ fetched = {<<"landing", "BuiltOnAptos">>}

\* C8 as stated: the placeholder is options.fallback whenever a fallback is
\* supplied (null, '' and 0 included), and the default spinner sized by
\* options.loadingSize (md by default) only when none is supplied.
C8_SuppliedFallbackUsed ==
  \A w \in Wrappers : (Mounted(w) /\ display[w].kind = "placeholder") =>
    IF options[w].fallback # "undefined"
    THEN display[w].node = Node(options[w].fallback)
    ELSE display[w].node =
           DefaultLoadingFallback(IF options[w].loadingSize = "undefined" THEN "md"
                                  ELSE options[w].loadingSize)

\* C9: a preloadComponent call invokes importFn once and returns with the
\* promise pending; a rejection goes to console.error and is never
\* unhandled; no preload event changes a boundary's hasError, a binding's
\* load state or thunk count, or what a wrapper shows.
C9_PreloadIsolated ==
  /\ [](/\ unhandled = {}
        /\ \A p \in Preloads :
             /\ preload[p].st = "idle" => preload[p].calls = 0
             /\ preload[p].st # "idle" => (preload[p].calls = 1 /\ preload[p].catch)
        /\ ev.op = "preloadComponent" => preload[ev.id].st = "pending"
        /\ ev.op = "PreloadSettle" =>
             ev.logged = (IF preload[ev.id].st = "rejected" THEN 1 ELSE 0))
  /\ [][preload' # preload =>
          /\ hasError' = hasError /\ status' = status /\ thunkCalls' = thunkCalls
          /\ display' = display /\ phase' = phase /\ fetched' = fetched]_vars

\* C9 witness: next to a mounted boundary wrapper whose import is pending,
\* a preload has just rejected and was logged.
C9_Witness ==
  /\ ev.op = "PreloadSettle" /\ preload[ev.id].st = "rejected" /\ ev.logged = 1
  /\ Mounted(1) /\ HasBoundary(1) /\ status[comp[1]] = "pending"

\* C10: a click on Retry runs no import thunk and leaves every binding's
\* load state, thunk count and the fetched modules as they were; a mounted
\* wrapper whose component's import has rejected shows the error panel
\* after every event, Retry included, and never the component.
C10_RetryKeepsImport ==
  /\ [](\A w \in Wrappers : (Created(w) /\ status[comp[w]] = "rejected") =>
          /\ display[w].kind # "component"
          /\ Mounted(w) => (hasError[w] /\ ShowsPanel(w))
          /\ (ev.op = "Retry" /\ ev.id = w) => (w \in ev.caught /\ ev.called = {}))
  /\ [][ev'.op = "Retry" =>
          /\ status' = status /\ thunkCalls' = thunkCalls /\ fetched' = fetched
          /\ ev'.called = {}]_vars

\* C10 witness: Retry was clicked on a boundary whose component's import
\* had rejected; the boundary caught the stored error again.
C10_Witness ==
  \E w \in Wrappers :
    /\ ev.op = "Retry" /\ ev.id = w /\ status[comp[w]] = "rejected"
    /\ thunkCalls[comp[w]] = 1 /\ hasError[w] /\ ShowsPanel(w)

====
